---------------------------- MODULE Spec2Model ----------------------------
(***************************************************************************)
(* Model of the live-helmet decoder of IoE_FireGuardian (src/main.py):     *)
(* the producer thread read_from_arduino, which assembles the lines of     *)
(* the serial stream into readings, keeps the bounded history and the flat *)
(* current values of helmet_live_data and saves them to h1_history.json,   *)
(* and the reader get_all_helmets, which serves that file.                 *)
(*                                                                         *)
(* Text is modelled character by character: a string is a sequence of      *)
(* one-character strings.  The three non-ASCII characters the code names   *)
(* are written "SUB2" (U+2082, the subscript two of SpO2), "ORD" (U+00BA)  *)
(* and "SIREN" (U+1F6A8).  White space stands for itself, but for the      *)
(* characters of U+2000 and above, written by code point: "U+2000".  A     *)
(* Python value that may be None is a sequence of length at most one:      *)
(* <<>> is None and <<v>> is the value v.  A number                        *)
(* is the decimal mant / 10^frac, kept normalised, so 28.5 is Dec(285, 1); *)
(* Python's int 120 and float 120.0 are the same number, as they are       *)
(* under Python's ==.                                                      *)
(***************************************************************************)
EXTENDS Integers, Sequences, FiniteSets, TLC

VARIABLES
    pc,                \* where the producer thread stands in read_from_arduino
    current_reading,   \* the reading being assembled (src/main.py:43)
    helmet_live_data,  \* flat current values and history (src/main.py:29)
    h1_file,           \* live_data/h1_history.json as a reader finds it
    response,          \* what the last /helmets request returned for H1
    last_error,        \* the exception the loop's handler caught last
    finalized,         \* every history entry ever appended, in order
    fed,               \* lines taken from the stream so far
    taken              \* the branch of the if/elif chain the last line took

vars == <<pc, current_reading, helmet_live_data, h1_file, response,
          last_error, finalized, fed, taken>>

----------------------------------------------------------------------------
(* Values *)

None == <<>>
Some(v) == <<v>>

RECURSIVE Pow10(_)
Pow10(n) == IF n = 0 THEN 1 ELSE 10 * Pow10(n - 1)

RECURSIVE Reduce(_, _)
\* the decimal mant / 10^frac without trailing zeros in its fraction
Reduce(mant, frac) ==
    IF frac > 0 /\ mant % 10 = 0 THEN Reduce(mant \div 10, frac - 1)
    ELSE [mant |-> mant, frac |-> frac]

Dec(mant, frac) == Reduce(mant, frac)

\* int(x) of a float: truncation toward zero
PyInt(x) ==
    LET p == Pow10(x.frac)
    IN  Dec(IF x.mant >= 0 THEN x.mant \div p ELSE -((-x.mant) \div p), 0)

----------------------------------------------------------------------------
(* Text *)

\* the characters str.strip() removes: those for which str.isspace() holds
Whitespace ==
    {" ", "\t", "\n", "\r", "\f",
     "",    \* U+000B, vertical tab
     "",    \* U+001C, file separator
     "",    \* U+001D, group separator
     "",    \* U+001E, record separator
     "",    \* U+001F, unit separator
     "",    \* U+0085, next line
     " ",    \* U+00A0, no-break space
     " ",    \* U+1680, ogham space mark
     "U+2000", "U+2001", "U+2002", "U+2003", "U+2004", "U+2005",
     "U+2006", "U+2007", "U+2008", "U+2009", "U+200A", "U+2028",
     "U+2029", "U+202F", "U+205F", "U+3000"}
DigitChars == <<"0", "1", "2", "3", "4", "5", "6", "7", "8", "9">>
LowerChars == <<"a", "b", "c", "d", "e", "f", "g", "h", "i", "j", "k", "l", "m",
                "n", "o", "p", "q", "r", "s", "t", "u", "v", "w", "x", "y", "z">>
UpperChars == <<"A", "B", "C", "D", "E", "F", "G", "H", "I", "J", "K", "L", "M",
                "N", "O", "P", "Q", "R", "S", "T", "U", "V", "W", "X", "Y", "Z">>

IsDigit(c) == \E d \in 1..10 : DigitChars[d] = c
DigitVal(c) == (CHOOSE d \in 1..10 : DigitChars[d] = c) - 1

\* k in s
Contains(s, k) ==
    \E i \in 0..(Len(s) - Len(k)) : SubSeq(s, i + 1, i + Len(k)) = k

\* s.strip()
Strip(s) ==
    LET keep == {i \in 1..Len(s) : s[i] \notin Whitespace}
    IN  IF keep = {} THEN <<>>
        ELSE SubSeq(s, CHOOSE i \in keep : \A j \in keep : i <= j,
                       CHOOSE i \in keep : \A j \in keep : j <= i)

RECURSIVE Replace(_, _, _)
\* s.replace(old, new), old not empty
Replace(s, old, new) ==
    IF Len(s) < Len(old) THEN s
    ELSE IF SubSeq(s, 1, Len(old)) = old
         THEN new \o Replace(SubSeq(s, Len(old) + 1, Len(s)), old, new)
         ELSE <<s[1]>> \o Replace(Tail(s), old, new)

\* s.upper(), for the characters of the model's lines
Upper(s) ==
    [i \in 1..Len(s) |->
        IF \E n \in 1..26 : LowerChars[n] = s[i]
        THEN UpperChars[CHOOSE n \in 1..26 : LowerChars[n] = s[i]]
        ELSE s[i]]

\* norm = line.replace("SpO<SUB2>", "SpO2").replace("<ORD>", "").strip()
Normalize(line) ==
    Strip(Replace(Replace(line, <<"S", "p", "O", "SUB2">>, <<"S", "p", "O", "2">>),
                  <<"ORD">>, <<>>))

----------------------------------------------------------------------------
(* extract_number, src/main.py:93-103 *)

RECURSIVE DigitRun(_, _)
\* how many digits s holds from position j on
DigitRun(s, j) ==
    IF j <= Len(s) /\ IsDigit(s[j]) THEN 1 + DigitRun(s, j + 1) ELSE 0

\* length of the match of \d*\.?\d+ at position j, 0 when there is none
BodyMatch(s, j) ==
    LET a == DigitRun(s, j)
        k == j + a
    IN  IF k <= Len(s) /\ s[k] = "." /\ DigitRun(s, k + 1) >= 1
        THEN a + 1 + DigitRun(s, k + 1)
        ELSE a

\* length of the match of [-+]?\d*\.?\d+ at position i, 0 when there is none
MatchAt(s, i) ==
    IF s[i] \in {"-", "+"} /\ BodyMatch(s, i + 1) > 0
    THEN 1 + BodyMatch(s, i + 1)
    ELSE BodyMatch(s, i)

RECURSIVE DigitsValue(_)
\* the number a string of digits writes
DigitsValue(ds) ==
    IF ds = <<>> THEN 0
    ELSE 10 * DigitsValue(SubSeq(ds, 1, Len(ds) - 1)) + DigitVal(ds[Len(ds)])

\* float(text) of a text that [-+]?\d*\.?\d+ matched
PyFloat(text) ==
    LET neg    == text[1] = "-"
        body   == IF text[1] \in {"-", "+"} THEN Tail(text) ELSE text
        dots   == {i \in 1..Len(body) : body[i] = "."}
        dot    == IF dots = {} THEN Len(body) + 1 ELSE CHOOSE i \in dots : TRUE
        digits == SubSeq(body, 1, dot - 1) \o SubSeq(body, dot + 1, Len(body))
        frac   == IF dots = {} THEN 0 ELSE Len(body) - dot
        mag    == DigitsValue(digits)
    IN  Dec(IF neg THEN -mag ELSE mag, frac)

\* s.split(":", 1)[1] when ":" is in s, else s
AfterColon(s) ==
    LET colons == {i \in 1..Len(s) : s[i] = ":"}
    IN  IF colons = {} THEN s
        ELSE SubSeq(s, 1 + (CHOOSE i \in colons : \A j \in colons : i <= j), Len(s))

\* the first number after the first colon (or the first number when there is
\* no colon), None when the text holds none
extract_number(s0) ==
    LET s     == AfterColon(s0)
        start == {i \in 1..Len(s) : MatchAt(s, i) > 0}
    IN  IF start = {} THEN None
        ELSE LET i == CHOOSE i \in start : \A j \in start : i <= j
             IN  Some(PyFloat(SubSeq(s, i, i + MatchAt(s, i) - 1)))

----------------------------------------------------------------------------
(* The keywords of the dispatch, src/main.py:105-148 *)

KwTemperature == <<"T", "e", "m", "p", "e", "r", "a", "t", "u", "r", "e">>
KwColon       == <<":">>
KwMQ2Value    == <<"M", "Q", "2", " ", "V", "a", "l", "u", "e">>
KwSmoke       == <<"S", "m", "o", "k", "e", " ", "D", "e", "t", "e", "c", "t", "e", "d">>
KwFlameQ      == <<"F", "l", "a", "m", "e", " ", "D", "e", "t", "e", "c", "t", "e", "d", "?">>
KwFlame       == <<"F", "l", "a", "m", "e", " ", "D", "e", "t", "e", "c", "t", "e", "d">>
KwFlameRaw    == <<"F", "l", "a", "m", "e", " ", "R", "a", "w">>
KwAvgHR       == <<"A", "v", "g", " ", "H", "R">>
KwHRBPM       == <<"H", "R", " ", "(", "B", "P", "M", ")">>
KwHeartRate   == <<"H", "e", "a", "r", "t", " ", "R", "a", "t", "e">>
KwSpO2Pct     == <<"S", "p", "O", "2", " ", "(", "%", ")">>
KwAlertStatus == <<"A", "L", "E", "R", "T", " ", "S", "T", "A", "T", "U", "S">>
KwALERT       == <<"A", "L", "E", "R", "T">>
KwSiren       == <<"SIREN">>
KwYES         == <<"Y", "E", "S">>

\* Branch with the blood-oxygen test loosened to the bare acronym, the match
\* the comment at src/main.py:141 warns against
BranchLooseSpO2(line, norm) ==
    IF Contains(norm, KwTemperature) /\ Contains(norm, KwColon) THEN "temperature"
    ELSE IF Contains(norm, KwMQ2Value) THEN "mq2"
    ELSE IF Contains(norm, KwSmoke) THEN "smoke"
    ELSE IF Contains(norm, KwFlameQ)
            \/ (Contains(norm, KwFlame) /\ ~Contains(norm, KwFlameRaw)) THEN "flame"
    ELSE IF Contains(norm, KwAvgHR) THEN "avg_hr"
    ELSE IF Contains(norm, KwHRBPM) \/ Contains(norm, KwHeartRate) THEN "hr"
    ELSE IF Contains(norm, <<"S", "p", "O", "2">>) THEN "spo2"
    ELSE IF Contains(line, KwAlertStatus) THEN "trigger"
    ELSE "none"

\* Branch with the instant heart-rate test ahead of the average one, the order
\* the comment at src/main.py:129 warns against
BranchInstantFirst(line, norm) ==
    IF Contains(norm, KwTemperature) /\ Contains(norm, KwColon) THEN "temperature"
    ELSE IF Contains(norm, KwMQ2Value) THEN "mq2"
    ELSE IF Contains(norm, KwSmoke) THEN "smoke"
    ELSE IF Contains(norm, KwFlameQ)
            \/ (Contains(norm, KwFlame) /\ ~Contains(norm, KwFlameRaw)) THEN "flame"
    ELSE IF Contains(norm, KwHRBPM) \/ Contains(norm, KwHeartRate) THEN "hr"
    ELSE IF Contains(norm, KwAvgHR) THEN "avg_hr"
    ELSE IF Contains(norm, KwSpO2Pct) THEN "spo2"
    ELSE IF Contains(line, KwAlertStatus) THEN "trigger"
    ELSE "none"

\* the branch of the if/elif chain a line takes; "none" when it takes none
Branch(line, norm) ==
    IF Contains(norm, KwTemperature) /\ Contains(norm, KwColon) THEN "temperature"
    ELSE IF Contains(norm, KwMQ2Value) THEN "mq2"
    ELSE IF Contains(norm, KwSmoke) THEN "smoke"
    ELSE IF Contains(norm, KwFlameQ)
            \/ (Contains(norm, KwFlame) /\ ~Contains(norm, KwFlameRaw)) THEN "flame"
    ELSE IF Contains(norm, KwAvgHR) THEN "avg_hr"
    ELSE IF Contains(norm, KwHRBPM) \/ Contains(norm, KwHeartRate) THEN "hr"
    ELSE IF Contains(norm, KwSpO2Pct) THEN "spo2"
    ELSE IF Contains(line, KwAlertStatus) THEN "trigger"
    ELSE "none"

\* alert = "ALERT" in line or "<SIREN>" in line, src/main.py:149
AlertMarker(line) == Contains(line, KwALERT) \/ Contains(line, KwSiren)

\* "YES" in norm.upper(), src/main.py:120 and 126
SaysYes(norm) == Contains(Upper(norm), KwYES)

----------------------------------------------------------------------------
(* The lines of the stream, as readline() returns them (decoded) *)

\* 'Temperature: 28.5\r\n'
LnTemp ==
    <<"T", "e", "m", "p", "e", "r", "a", "t", "u", "r", "e", ":", " ", "2", "8", ".", "5", "\r", "\n">>
\* 'Temperature:\r\n'
LnTempBare ==
    <<"T", "e", "m", "p", "e", "r", "a", "t", "u", "r", "e", ":", "\r", "\n">>
\* 'Temperature 30\r\n'
LnTempNoColon ==
    <<"T", "e", "m", "p", "e", "r", "a", "t", "u", "r", "e", " ", "3", "0", "\r", "\n">>
\* 'Temperature: 31 ALERT STATUS\r\n'
LnTempTrigger ==
    <<"T", "e", "m", "p", "e", "r", "a", "t", "u", "r", "e", ":", " ", "3", "1", " ", "A", "L", "E", "R", "T", " ", "S", "T", "A", "T", "U", "S", "\r", "\n">>
\* 'MQ2 Value: 120\r\n'
LnGas ==
    <<"M", "Q", "2", " ", "V", "a", "l", "u", "e", ":", " ", "1", "2", "0", "\r", "\n">>
\* 'MQ2 Value:\r\n'
LnGasBare ==
    <<"M", "Q", "2", " ", "V", "a", "l", "u", "e", ":", "\r", "\n">>
\* '\x0bMQ2 Value: 120.9\xa0\r\n'
LnGasFrac ==
    <<"", "M", "Q", "2", " ", "V", "a", "l", "u", "e", ":", " ", "1", "2", "0", ".", "9", " ", "\r", "\n">>
\* 'Smoke Detected: YES\r\n'
LnSmokeYes ==
    <<"S", "m", "o", "k", "e", " ", "D", "e", "t", "e", "c", "t", "e", "d", ":", " ", "Y", "E", "S", "\r", "\n">>
\* 'Smoke Detected: NO\r\n'
LnSmokeNo ==
    <<"S", "m", "o", "k", "e", " ", "D", "e", "t", "e", "c", "t", "e", "d", ":", " ", "N", "O", "\r", "\n">>
\* 'Flame Detected? yes\r\n'
LnFlameYes ==
    <<"F", "l", "a", "m", "e", " ", "D", "e", "t", "e", "c", "t", "e", "d", "?", " ", "y", "e", "s", "\r", "\n">>
\* 'Flame Detected? NO\r\n'
LnFlameNo ==
    <<"F", "l", "a", "m", "e", " ", "D", "e", "t", "e", "c", "t", "e", "d", "?", " ", "N", "O", "\r", "\n">>
\* 'Flame Raw: 512 (Flame Detected)\r\n'
LnFlameRaw ==
    <<"F", "l", "a", "m", "e", " ", "R", "a", "w", ":", " ", "5", "1", "2", " ", "(", "F", "l", "a", "m", "e", " ", "D", "e", "t", "e", "c", "t", "e", "d", ")", "\r", "\n">>
\* 'Avg HR (BPM): 72\r\n'
LnAvgHR ==
    <<"A", "v", "g", " ", "H", "R", " ", "(", "B", "P", "M", ")", ":", " ", "7", "2", "\r", "\n">>
\* 'HR (BPM): 80\r\n'
LnHR ==
    <<"H", "R", " ", "(", "B", "P", "M", ")", ":", " ", "8", "0", "\r", "\n">>
\* 'Heart Rate: --\r\n'
LnHRNone ==
    <<"H", "e", "a", "r", "t", " ", "R", "a", "t", "e", ":", " ", "-", "-", "\r", "\n">>
\* 'SpOSUB2 (%): 98.0\r\n'
LnSpO2 ==
    <<"S", "p", "O", "SUB2", " ", "(", "%", ")", ":", " ", "9", "8", ".", "0", "\r", "\n">>
\* 'HR/SpO2 Alert: NO\r\n'
LnSpO2Alert ==
    <<"H", "R", "/", "S", "p", "O", "2", " ", "A", "l", "e", "r", "t", ":", " ", "N", "O", "\r", "\n">>
\* 'ALERT STATUS: Normal\r\n'
LnNormal ==
    <<"A", "L", "E", "R", "T", " ", "S", "T", "A", "T", "U", "S", ":", " ", "N", "o", "r", "m", "a", "l", "\r", "\n">>
\* 'ALERT STATUS: SIREN ALERT\r\n'
LnAlert ==
    <<"A", "L", "E", "R", "T", " ", "S", "T", "A", "T", "U", "S", ":", " ", "SIREN", " ", "A", "L", "E", "R", "T", "\r", "\n">>
\* 'noise -4.\r\n'
LnNoise ==
    <<"n", "o", "i", "s", "e", " ", "-", "4", ".", "\r", "\n">>
\* '\x0c\r\n'
LnBlank ==
    <<"\f", "\r", "\n">>

RawLines ==
    {LnTemp, LnTempBare, LnTempNoColon, LnTempTrigger, LnGas, LnGasBare, LnGasFrac,
     LnSmokeYes, LnSmokeNo, LnFlameYes, LnFlameNo, LnFlameRaw, LnAvgHR, LnHR,
     LnHRNone, LnSpO2, LnSpO2Alert, LnNormal, LnAlert, LnNoise, LnBlank}

\* time.strftime("%H:%M:%S") at successive finalizes, src/main.py:166: the wall
\* clock is taken to show these two seconds in turn, so that two entries made
\* one after the other differ in their timestamp even when their values agree
Stamps == <<"09:00:00", "09:00:01">>

\* what one pass of the loop body computes from the line it read
Decode(raw) ==
    LET line == Strip(raw)
        norm == Normalize(line)
    IN  [empty  |-> line = <<>>,
         branch |-> Branch(line, norm),
         number |-> extract_number(norm),
         yes    |-> SaysYes(norm),
         alert  |-> AlertMarker(line)]

Decoded == [raw \in RawLines |-> Decode(raw)]

----------------------------------------------------------------------------
(* Bounds *)

MaxLines == 5        \* lines the stream delivers in a run of the model
MaxTape == 102       \* readings the scripted stream of SpecLedger delivers

----------------------------------------------------------------------------
(* State *)

\* the readings the history keeps, src/main.py:178
HistoryCap == 100

\* current_reading, src/main.py:43-51 and 189-197
EmptyReading ==
    [temperature |-> None, mq2_value |-> None, flame_detected |-> None,
     heart_rate |-> None, heart_rate_avg |-> None, spo2 |-> None,
     alert_status |-> None]

\* helmet_live_data, src/main.py:29-40
InitialLive ==
    [helmet_id |-> "H1", name |-> "John Doe",
     temperature |-> Some(Dec(0, 0)), humidity |-> Some(Dec(0, 0)),
     mq2_value |-> Some(Dec(0, 0)), flame_detected |-> Some(FALSE),
     alert_status |-> Some("Normal"), heartRate |-> Some(Dec(0, 0)),
     spo2 |-> Some(Dec(0, 0)), history |-> <<>>]

Init ==
    /\ pc = "connect"
    /\ current_reading = EmptyReading
    /\ helmet_live_data = InitialLive
    /\ h1_file = [state |-> "missing", data |-> None]
    /\ response = [kind |-> "none", data |-> None]
    /\ last_error = "none"
    /\ finalized = <<>>
    /\ fed = 0
    /\ taken = ""

----------------------------------------------------------------------------
(* The loop body of read_from_arduino, src/main.py:83-179 *)

\* the temperature branch with None kept where no number was found
OnTemperatureAbsent(cr, d) == [cr EXCEPT !.temperature = d.number]

\* the temperature branch, src/main.py:106-108
OnTemperature(cr, d) ==
    [cr EXCEPT !.temperature = IF d.number # None THEN d.number ELSE Some(Dec(0, 0))]

\* the gas branch, src/main.py:112-114
OnMQ2(cr, d) ==
    [cr EXCEPT !.mq2_value =
        IF d.number # None THEN Some(PyInt(d.number[1])) ELSE Some(Dec(0, 0))]

\* the smoke branch without the reset of the flame flag
OnSmokeKeepsFlame(cr, d) ==
    [cr EXCEPT !.alert_status = IF d.yes THEN Some("Smoke Alert") ELSE @]

\* the smoke branch, src/main.py:118-121
OnSmoke(cr, d) ==
    [cr EXCEPT !.flame_detected = Some(FALSE),
               !.alert_status = IF d.yes THEN Some("Smoke Alert") ELSE @]

\* the flame branch, src/main.py:125-126
OnFlame(cr, d) == [cr EXCEPT !.flame_detected = Some(d.yes)]

\* the average heart rate branch, src/main.py:130-132
OnAvgHR(cr, d) == [cr EXCEPT !.heart_rate_avg = d.number]

\* the instant heart rate branch, src/main.py:136-138
OnHR(cr, d) == [cr EXCEPT !.heart_rate = d.number]

\* the blood oxygen branch, src/main.py:142-144
OnSpO2(cr, d) ==
    [cr EXCEPT !.spo2 = IF d.number # None THEN d.number ELSE Some(Dec(0, 0))]

\* the trigger branch starting the next reading from scratch, core data apart
OnTriggerResets(cr, d) ==
    [EmptyReading EXCEPT !.temperature = cr.temperature,
                         !.mq2_value = cr.mq2_value,
                         !.alert_status = Some(IF d.alert THEN "ALERT" ELSE "Normal")]

\* the trigger branch leaving a smoke alert of the cycle in place
OnTriggerKeepsSmoke(cr, d) ==
    [cr EXCEPT !.alert_status =
        IF @ = Some("Smoke Alert") THEN @
        ELSE Some(IF d.alert THEN "ALERT" ELSE "Normal")]

\* the trigger branch before its guard, src/main.py:148-150
OnTrigger(cr, d) ==
    [cr EXCEPT !.alert_status = Some(IF d.alert THEN "ALERT" ELSE "Normal")]

\* the if/elif chain: the assembled reading after a line of the given decoding
Accumulate(cr, d) ==
    CASE d.branch = "temperature" -> OnTemperature(cr, d)
      [] d.branch = "mq2"         -> OnMQ2(cr, d)
      [] d.branch = "smoke"       -> OnSmoke(cr, d)
      [] d.branch = "flame"       -> OnFlame(cr, d)
      [] d.branch = "avg_hr"      -> OnAvgHR(cr, d)
      [] d.branch = "hr"          -> OnHR(cr, d)
      [] d.branch = "spo2"        -> OnSpO2(cr, d)
      [] d.branch = "trigger"     -> OnTrigger(cr, d)
      [] OTHER                    -> cr

\* HasCoreData with the guard left out, as in src/backend/main.py
HasCoreDataAlways(cr) == TRUE

\* "only update if we have at least some core data", src/main.py:154
HasCoreData(cr) == cr.temperature # None \/ cr.mq2_value # None

\* ShownHeartRate that prefers the average to the instant heart rate
ShownHeartRateAvgFirst(cr) ==
    IF cr.heart_rate_avg # None THEN cr.heart_rate_avg ELSE cr.heart_rate

\* the heart rate shown: instant, falling back to the average, src/main.py:160
ShownHeartRate(cr) ==
    IF cr.heart_rate # None THEN cr.heart_rate ELSE cr.heart_rate_avg

\* HistoryEntry that leaves the flame flag out of the entry
HistoryEntryNoFlame(cr, ts) ==
    [timestamp |-> ts, temperature |-> cr.temperature, mq2_value |-> cr.mq2_value,
     flame_detected |-> None, heart_rate |-> cr.heart_rate,
     heart_rate_avg |-> cr.heart_rate_avg, spo2 |-> cr.spo2,
     alert_status |-> cr.alert_status]

\* history_entry, src/main.py:165-174
HistoryEntry(cr, ts) ==
    [timestamp |-> ts, temperature |-> cr.temperature, mq2_value |-> cr.mq2_value,
     flame_detected |-> cr.flame_detected, heart_rate |-> cr.heart_rate,
     heart_rate_avg |-> cr.heart_rate_avg, spo2 |-> cr.spo2,
     alert_status |-> cr.alert_status]

\* AppendHistory that never evicts
AppendHistoryNoEvict(h, e) == Append(h, e)

\* AppendHistory that evicts with pop(), the newest entry, in place of pop(0)
AppendHistoryPopLast(h, e) ==
    LET h2 == Append(h, e)
    IN  IF Len(h2) > HistoryCap THEN SubSeq(h2, 1, Len(h2) - 1) ELSE h2

\* AppendHistory that inserts at the front and evicts at the back
AppendHistoryFront(h, e) ==
    LET h2 == <<e>> \o h
    IN  IF Len(h2) > HistoryCap THEN SubSeq(h2, 1, Len(h2) - 1) ELSE h2

\* append, then pop(0) when more than 100 are held, src/main.py:177-179
AppendHistory(h, e) ==
    LET h2 == Append(h, e)
    IN  IF Len(h2) > HistoryCap THEN Tail(h2) ELSE h2

\* Publish that appends the entry and leaves the flat fields as they were
PublishHistoryOnly(live, cr, ts) ==
    [live EXCEPT !.history = Append(@, [timestamp |-> ts,
        temperature |-> cr.temperature, mq2_value |-> cr.mq2_value,
        flame_detected |-> cr.flame_detected, heart_rate |-> cr.heart_rate,
        heart_rate_avg |-> cr.heart_rate_avg, spo2 |-> cr.spo2,
        alert_status |-> cr.alert_status])]

\* helmet_live_data after a finalize, src/main.py:156-179
Publish(live, cr, ts) ==
    [live EXCEPT !.temperature = cr.temperature,
                 !.mq2_value = cr.mq2_value,
                 !.flame_detected = cr.flame_detected,
                 !.heartRate = ShownHeartRate(cr),
                 !.spo2 = cr.spo2,
                 !.alert_status = cr.alert_status,
                 !.history = AppendHistory(@, HistoryEntry(cr, ts))]

\* whether the line of decoding d finalizes the reading cr holds before it
Finalizes(cr, d) ==
    ~d.empty /\ d.branch = "trigger" /\ HasCoreData(Accumulate(cr, d))

\* one pass of the loop on the line raw, up to the save of the file
Process(raw) ==
    LET d   == Decoded[raw]
        ts  == Stamps[(Len(finalized) % Len(Stamps)) + 1]
        cr1 == IF d.empty THEN current_reading ELSE Accumulate(current_reading, d)
    IN  /\ pc = "read"
        /\ current_reading' = cr1
        /\ IF Finalizes(current_reading, d)
           THEN /\ helmet_live_data' = Publish(helmet_live_data, cr1, ts)
                /\ finalized' = Append(finalized, HistoryEntry(cr1, ts))
                /\ pc' = "save"
           ELSE /\ UNCHANGED <<helmet_live_data, finalized>>
                /\ pc' = "read"
        /\ taken' = IF d.empty THEN "empty" ELSE d.branch
        /\ UNCHANGED <<h1_file, response, last_error>>

----------------------------------------------------------------------------
(* The producer thread, src/main.py:71-201 *)

\* serial.Serial(...) opens the port, src/main.py:74-76
Connect ==
    /\ pc = "connect"
    /\ pc' = "read"
    /\ UNCHANGED <<current_reading, helmet_live_data, h1_file, response,
                   last_error, finalized, fed, taken>>

\* serial.Serial(...) raises: the thread returns, src/main.py:77-79
ConnectFail ==
    /\ pc = "connect"
    /\ pc' = "returned"
    /\ UNCHANGED <<current_reading, helmet_live_data, h1_file, response,
                   last_error, finalized, fed, taken>>

\* readline() delivers a line and the loop body runs on it
ReadLine ==
    /\ fed < MaxLines
    /\ fed' = fed + 1
    /\ \E raw \in RawLines : Process(raw)

\* ReadError with the exception leaving the loop in place of being caught
ReadErrorPropagates ==
    /\ pc = "read"
    /\ last_error' = "read"
    /\ pc' = "returned"
    /\ UNCHANGED <<current_reading, helmet_live_data, h1_file, response,
                   finalized, fed, taken>>

\* readline() raises: caught at src/main.py:199
ReadError ==
    /\ pc = "read"
    /\ last_error' = "read"
    /\ pc' = "sleep"
    /\ UNCHANGED <<current_reading, helmet_live_data, h1_file, response,
                   finalized, fed, taken>>

\* open(h1_history.json, "w") truncates the file, src/main.py:182
SaveOpen ==
    /\ pc = "save"
    /\ h1_file' = [state |-> "incomplete", data |-> None]
    /\ pc' = "dump"
    /\ UNCHANGED <<current_reading, helmet_live_data, response, last_error,
                   finalized, fed, taken>>

\* SaveOpenError with the exception ending the thread in place of being caught
SaveOpenErrorFatal ==
    /\ pc = "save"
    /\ last_error' = "save"
    /\ pc' = "returned"
    /\ UNCHANGED <<current_reading, helmet_live_data, h1_file, response,
                   finalized, fed, taken>>

\* open(...) raises: caught at src/main.py:199, the reset is skipped
SaveOpenError ==
    /\ pc = "save"
    /\ last_error' = "save"
    /\ pc' = "sleep"
    /\ UNCHANGED <<current_reading, helmet_live_data, h1_file, response,
                   finalized, fed, taken>>

\* json.dump writes the file and the with block closes it; the reading being
\* assembled is reset, src/main.py:183-197
SaveDump ==
    /\ pc = "dump"
    /\ h1_file' = [state |-> "complete", data |-> Some(helmet_live_data)]
    /\ current_reading' = EmptyReading
    /\ pc' = "read"
    /\ UNCHANGED <<helmet_live_data, response, last_error, finalized, fed, taken>>

\* json.dump raises part way: the file keeps a prefix of the text, the reset
\* is skipped
SaveDumpError ==
    /\ pc = "dump"
    /\ last_error' = "save"
    /\ pc' = "sleep"
    /\ UNCHANGED <<current_reading, helmet_live_data, h1_file, response,
                   finalized, fed, taken>>

\* time.sleep(2) in the handler ends and the loop goes round, src/main.py:201
Resume ==
    /\ pc = "sleep"
    /\ pc' = "read"
    /\ UNCHANGED <<current_reading, helmet_live_data, h1_file, response,
                   last_error, finalized, fed, taken>>

----------------------------------------------------------------------------
(* A reader, src/main.py:211-226 *)

\* what json.load of the file gives: the H1 record, the FileNotFoundError
\* fallback, or a JSONDecodeError that the handler does not catch
Served(file) ==
    CASE file.state = "missing"    -> [kind |-> "no_recent_data", data |-> None]
      [] file.state = "incomplete" -> [kind |-> "error", data |-> None]
      [] OTHER                     -> [kind |-> "data", data |-> file.data]

get_all_helmets ==
    /\ response' = Served(h1_file)
    /\ UNCHANGED <<pc, current_reading, helmet_live_data, h1_file, last_error,
                   finalized, fed, taken>>

----------------------------------------------------------------------------

Next ==
    \/ Connect
    \/ ConnectFail
    \/ ReadLine
    \/ ReadError
    \/ SaveOpen
    \/ SaveOpenError
    \/ SaveDump
    \/ SaveDumpError
    \/ Resume

Spec == Init /\ [][Next]_vars

\* the scripted stream: a temperature line, then a trigger line, the
\* temperature lines taken in turn
TapeTemps == <<LnTemp, LnTempBare, LnTempTrigger>>

TapeLine ==
    IF current_reading.temperature = None
    THEN TapeTemps[(Len(finalized) % Len(TapeTemps)) + 1]
    ELSE LnAlert

\* readline() delivers the next line of the scripted stream
ReadTape ==
    /\ Len(finalized) < MaxTape
    /\ fed' = fed + 1
    /\ Process(TapeLine)

NextLedger ==
    \/ Connect
    \/ ReadTape
    \/ SaveOpen
    \/ SaveDump

SpecLedger == Init /\ [][NextLedger]_vars

NextReaders ==
    \/ Connect
    \/ ConnectFail
    \/ ReadLine
    \/ ReadError
    \/ SaveOpen
    \/ SaveOpenError
    \/ SaveDump
    \/ SaveDumpError
    \/ Resume
    \/ get_all_helmets

SpecReaders == Init /\ [][NextReaders]_vars

\* the stream of cycles with a discarded trigger line: lines for the flame flag,
\* the heart rates and the blood oxygen first, then a trigger line, which the
\* guard discards, then a temperature or gas line and the trigger line that
\* finalizes
IncompleteCycleLines ==
    IF HasCoreData(current_reading) THEN {LnNormal, LnAlert}
    ELSE IF current_reading.alert_status \in {Some("ALERT"), Some("Normal")}
         THEN {LnTemp, LnGas}
    ELSE IF current_reading = EmptyReading THEN {LnFlameYes, LnHR, LnAvgHR, LnSpO2}
    ELSE {LnFlameYes, LnHR, LnAvgHR, LnSpO2, LnNormal, LnAlert}

\* readline() delivers the next line of such a stream
ReadIncompleteCycle ==
    /\ fed < MaxLines
    /\ fed' = fed + 1
    /\ \E raw \in IncompleteCycleLines : Process(raw)

NextIncomplete ==
    \/ Connect
    \/ ReadIncompleteCycle
    \/ SaveOpen
    \/ SaveOpenError
    \/ SaveDump
    \/ SaveDumpError
    \/ Resume

SpecIncomplete == Init /\ [][NextIncomplete]_vars

\* the stream of cycles that open with an affirmative smoke line: any line
\* that sets a field, a negative smoke line or a trigger line may follow
SmokeCycleLines ==
    IF current_reading = EmptyReading THEN {LnSmokeYes}
    ELSE {LnTemp, LnGas, LnFlameYes, LnHR, LnAvgHR, LnSpO2, LnSmokeNo,
          LnNormal, LnAlert}

\* readline() delivers the next line of such a stream
ReadSmokeCycle ==
    /\ fed < MaxLines
    /\ fed' = fed + 1
    /\ \E raw \in SmokeCycleLines : Process(raw)

NextSmoke ==
    \/ Connect
    \/ ReadSmokeCycle
    \/ SaveOpen
    \/ SaveDump

SpecSmoke == Init /\ [][NextSmoke]_vars

----------------------------------------------------------------------------
(* Properties *)

Last(s) == s[Len(s)]

History == helmet_live_data.history

\* a line the loop body dispatches as the alert-status trigger
IsTrigger(raw) == ~Decoded[raw].empty /\ Decoded[raw].branch = "trigger"

\* the lines whose reported status, the text after the colon, carries an
\* affirmative marker
Affirmative == {raw \in RawLines : AlertMarker(AfterColon(Strip(raw)))}

ReportsAlert(raw) == raw \in Affirmative

\* the flat current values agree with the history entry e
Reflects(live, e) ==
    /\ live.temperature = e.temperature
    /\ live.mq2_value = e.mq2_value
    /\ live.flame_detected = e.flame_detected
    /\ live.heartRate = (IF e.heart_rate # None THEN e.heart_rate ELSE e.heart_rate_avg)
    /\ live.spo2 = e.spo2
    /\ live.alert_status = e.alert_status

\* the reading assembled by "Temperature: 28.5", "MQ2 Value: 120",
\* "Flame Detected? NO"
ScenarioReading ==
    [EmptyReading EXCEPT !.temperature = Some(Dec(285, 1)),
                         !.mq2_value = Some(Dec(120, 0)),
                         !.flame_detected = Some(FALSE)]

\* C1: a trigger line sets the alert status of the cycle, and of the reading it
\* finalizes, to ALERT when the status it reports is affirmative and to Normal
\* otherwise; in particular "ALERT STATUS: Normal" after "Temperature: 28.5",
\* "MQ2 Value: 120", "Flame Detected? NO" on a fresh instance leaves exactly one
\* reading {28.5, 120, false, Normal}.
C1_TriggerSetsAlertStatus ==
    [][\A raw \in RawLines :
        (IsTrigger(raw) /\ Process(raw)) =>
            LET status == Some(IF ReportsAlert(raw) THEN "ALERT" ELSE "Normal")
            IN  /\ current_reading'.alert_status = status
                /\ (History' # History => Last(History').alert_status = status)
                /\ (raw = LnNormal /\ current_reading = ScenarioReading /\ History = <<>>
                    => /\ Len(History') = 1
                       /\ History'[1].temperature = Some(Dec(285, 1))
                       /\ History'[1].mq2_value = Some(Dec(120, 0))
                       /\ History'[1].flame_detected = Some(FALSE)
                       /\ History'[1].alert_status = Some("Normal"))]_vars

\* C2: whenever the history is not empty, the flat current values (temperature,
\* gas level, flame flag, heart rate as instant-else-average, blood oxygen, alert
\* status) are those of the last history entry, in every state: the two are
\* updated in one step.
C2_SnapshotReflectsLast ==
    History # <<>> => Reflects(helmet_live_data, Last(History))

\* two readings with different temperatures are held, the later one with an
\* average heart rate only
C2_Witness ==
    /\ Len(History) = 2
    /\ History[1].temperature # History[2].temperature
    /\ History[2].heart_rate = None
    /\ History[2].heart_rate_avg # None

\* C3: every request of a reader, whatever the producer is doing, returns a
\* complete and consistent snapshot: never an incomplete one, its flat values
\* those of its last history entry, and it shows the latest finalize or the one
\* before it.
C3_ReaderSeesConsistentSnapshot ==
    [][get_all_helmets =>
        LET r == response'
            n == Len(finalized)
        IN  /\ r.kind # "error"
            /\ (r.kind = "no_recent_data" => n <= 1)
            /\ (r.kind = "data" =>
                    LET h == r.data[1].history
                    IN  /\ h # <<>>
                        /\ Reflects(r.data[1], Last(h))
                        /\ \E m \in {n - 1, n} : m >= 1 /\ Last(h) = finalized[m])]_vars

\* C4: the history never holds more than 100 readings.
C4_HistoryBounded == Len(History) <= HistoryCap

\* more than 100 readings were finalized and the history is full
C4_Witness == Len(finalized) > HistoryCap /\ Len(History) = HistoryCap

\* C5: the history holds the last 100 finalized readings in finalize order,
\* oldest first, and all of them while fewer than 100 were finalized: eviction
\* removes the oldest.
C5_HistoryIsLastN ==
    LET n == Len(finalized)
    IN  History = IF n <= HistoryCap THEN finalized
                  ELSE SubSeq(finalized, n - HistoryCap + 1, n)

\* 102 readings were finalized: the first two are gone and the third is the
\* oldest held
C5_Witness ==
    /\ Len(finalized) = HistoryCap + 2
    /\ History[1] = finalized[3]
    /\ History[1] # finalized[1]
    /\ History[1] # finalized[2]

\* the lines that hold none of the keywords of the dispatch
KeywordFree ==
    {raw \in RawLines :
        LET line == Strip(raw)
            norm == Normalize(line)
        IN  /\ \A k \in {KwTemperature, KwMQ2Value, KwSmoke, KwFlame, KwAvgHR,
                         KwHRBPM, KwHeartRate, KwSpO2Pct} : ~Contains(norm, k)
            /\ ~Contains(line, KwAlertStatus)}

\* C6: field lines append nothing to the history; an affirmative trigger line
\* after field lines that set the temperature or the gas level appends exactly
\* one reading, which carries the values assembled in the cycle, and the flat
\* current values reflect it.
C6_CompleteCycleAppendsOne ==
    [][/\ (History' # History \/ finalized' # finalized
              => \A raw \in RawLines : ~IsTrigger(raw) => ~Process(raw))
       /\ \A raw \in Affirmative :
            (IsTrigger(raw) /\ HasCoreData(current_reading) /\ Process(raw))
                => /\ Len(History') = Len(History) + 1
                   /\ SubSeq(History', 1, Len(History)) = History
                   /\ Len(finalized') = Len(finalized) + 1
                   /\ Last(History').temperature = current_reading.temperature
                   /\ Last(History').mq2_value = current_reading.mq2_value
                   /\ Last(History').flame_detected = current_reading.flame_detected
                   /\ Last(History').heart_rate = current_reading.heart_rate
                   /\ Last(History').heart_rate_avg = current_reading.heart_rate_avg
                   /\ Last(History').spo2 = current_reading.spo2
                   /\ Last(History').alert_status = Some("ALERT")
                   /\ Reflects(helmet_live_data', Last(History'))]_vars

\* the trigger line has just finalized the cycle of "Temperature: 28.5",
\* "MQ2 Value: 120", "Flame Detected? NO" and a blood-oxygen line
C6_Witness ==
    /\ taken = "trigger"
    /\ pc = "save"
    /\ Len(History) = 1
    /\ History[1].temperature = Some(Dec(285, 1))
    /\ History[1].mq2_value = Some(Dec(120, 0))
    /\ History[1].flame_detected = Some(FALSE)
    /\ History[1].spo2 = Some(Dec(98, 0))
    /\ History[1].alert_status = Some("ALERT")
    /\ helmet_live_data.temperature = Some(Dec(285, 1))

\* C7: a line that holds none of the keywords, an empty line included, leaves
\* the history, the flat current values and the reading being assembled as they
\* were, and raises nothing: the loop goes on to the next read.
C7_UnrecognizedLineIsNoOp ==
    [][\A raw \in KeywordFree :
        Process(raw) =>
            /\ UNCHANGED <<current_reading, helmet_live_data, finalized, h1_file,
                           last_error>>
            /\ pc' = "read"]_vars

\* a line took no branch while a reading was being assembled and another was
\* already in the history
C7_Witness ==
    /\ taken \in {"none", "empty"}
    /\ pc = "read"
    /\ current_reading.spo2 = None
    /\ current_reading.temperature # None
    /\ History # <<>>

\* C8: a trigger line met while neither the temperature nor the gas level is
\* set produces no reading: history and flat current values stay as they were
\* and nothing is raised.
C8_TriggerWithoutCoreData ==
    [][\A raw \in RawLines :
        (/\ IsTrigger(raw)
         /\ current_reading.temperature = None
         /\ current_reading.mq2_value = None
         /\ Process(raw)) =>
            /\ UNCHANGED <<helmet_live_data, finalized, h1_file, last_error>>
            /\ pc' = "read"]_vars

\* a trigger line was discarded: it set the alert status of a reading that has a
\* flame flag and neither temperature nor gas level, and the loop reads on
C8_Witness ==
    /\ taken = "trigger"
    /\ pc = "read"
    /\ current_reading.temperature = None
    /\ current_reading.mq2_value = None
    /\ current_reading.flame_detected # None
    /\ current_reading.alert_status = Some("ALERT")
    /\ History = <<>>

\* C9: an error of the stream while a line is read is passed to the caller and
\* ends the producer loop, with no retry and no backoff inside it.
C9_TransportErrorEndsLoop ==
    [][ReadError => pc' = "returned"]_vars

\* C9, amended: an error of the stream while a line is read is caught inside
\* the loop, which leaves all data as it was, sleeps and then reads again; the
\* producer ends only when the stream cannot be opened at the start.
C9_TransportErrorRetried ==
    [][/\ (pc = "read" /\ fed' = fed /\ pc' # pc
              => /\ pc' = "sleep"
                 /\ last_error' = "read"
                 /\ UNCHANGED <<current_reading, helmet_live_data, h1_file, finalized>>)
       /\ (pc = "sleep" /\ pc' # pc => pc' = "read")
       /\ (pc' = "returned" => pc \in {"connect", "returned"})]_vars

\* after an error of the stream the loop has slept and finalized a reading
C9_Witness ==
    /\ last_error = "read"
    /\ pc = "save"
    /\ fed = 2
    /\ Len(finalized) = 1

\* C10: no error raised while a line is processed ends the producer loop: after
\* a failure in the finalize step the producer sleeps, reads the next line, and
\* later lines are still assembled into readings.
C10_LineErrorNeverEndsLoop ==
    [][/\ (pc \in {"save", "dump"} => pc' \in {"save", "dump", "sleep", "read"})
       /\ (pc \in {"save", "dump"} /\ last_error' # last_error
              => pc' = "sleep" /\ last_error' = "save")
       /\ (pc = "sleep" /\ pc' # pc => pc' = "read")
       /\ (pc # "connect" => pc' # "returned")]_vars

\* the save of the first reading failed, and a second reading has just been
\* finalized from the lines that followed
C10_Witness ==
    /\ last_error = "save"
    /\ pc = "save"
    /\ taken = "trigger"
    /\ Len(finalized) = 2

\* the trigger lines of the stream
Triggers == {LnNormal, LnAlert}

\* the fields of a reading other than its alert status agree
SameValues(a, b) ==
    /\ a.temperature = b.temperature
    /\ a.mq2_value = b.mq2_value
    /\ a.flame_detected = b.flame_detected
    /\ a.heart_rate = b.heart_rate
    /\ a.heart_rate_avg = b.heart_rate_avg
    /\ a.spo2 = b.spo2

\* C11: a flame line sets the flame flag of the reading being assembled to what
\* it says and leaves the alert status alone, so after an affirmative smoke line
\* the status stays Smoke Alert until a trigger line overwrites it; a smoke line
\* clears the flame flag, whatever a flame line set before, and sets the status
\* to Smoke Alert when it is affirmative.
C11_SmokeAndFlamePrecedence ==
    [][/\ \A raw \in {LnFlameYes, LnFlameNo} :
            Process(raw) =>
                /\ current_reading'.flame_detected = Some(raw = LnFlameYes)
                /\ current_reading'.alert_status = current_reading.alert_status
       /\ \A raw \in {LnSmokeYes, LnSmokeNo} :
            Process(raw) =>
                /\ current_reading'.flame_detected = Some(FALSE)
                /\ current_reading'.alert_status =
                      IF raw = LnSmokeYes THEN Some("Smoke Alert")
                      ELSE current_reading.alert_status
       /\ ((/\ current_reading.alert_status = Some("Smoke Alert")
            /\ current_reading'.alert_status # Some("Smoke Alert"))
              => (taken' = "trigger" /\ fed' = fed + 1))]_vars

\* an affirmative flame line came after an affirmative smoke line of the cycle,
\* and a temperature line before both
C11_Witness ==
    /\ taken = "flame"
    /\ current_reading.flame_detected = Some(TRUE)
    /\ current_reading.alert_status = Some("Smoke Alert")
    /\ current_reading.temperature # None

\* C12: a trigger line met while neither the temperature nor the gas level is
\* set leaves every field of the reading being assembled as it was.
C12_DiscardedTriggerLeavesReading ==
    [][\A raw \in Triggers :
        (/\ current_reading.temperature = None
         /\ current_reading.mq2_value = None
         /\ Process(raw)) => current_reading' = current_reading]_vars

\* C12, amended: such a trigger line leaves every field but the alert status as
\* it was; the alert status is overwritten with the status the trigger line
\* sets, before the guard is tested.
C12_DiscardedTriggerSetsOnlyStatus ==
    [][\A raw \in Triggers :
        (/\ current_reading.temperature = None
         /\ current_reading.mq2_value = None
         /\ Process(raw)) =>
            /\ SameValues(current_reading', current_reading)
            /\ current_reading'.alert_status \in {Some("ALERT"), Some("Normal")}]_vars

\* a trigger line was discarded and the heart rate and the blood oxygen set
\* before it are still there
C12_Witness ==
    /\ taken = "trigger"
    /\ pc = "read"
    /\ current_reading.temperature = None
    /\ current_reading.mq2_value = None
    /\ current_reading.heart_rate = Some(Dec(80, 0))
    /\ current_reading.spo2 = Some(Dec(98, 0))
    /\ current_reading.alert_status = Some("ALERT")

\* C13: the pass of the loop that appended a reading to the history ends with
\* the reading being assembled reset, all seven fields None, so that no value of
\* the finalized cycle reaches the next reading.
C13_FinalizeResetsReading ==
    [][(pc \in {"save", "dump"} /\ pc' \notin {"save", "dump"})
          => (current_reading' = EmptyReading)]_vars

\* the flame flag, the heart rates and the blood oxygen of two readings agree
SameVitals(a, b) ==
    /\ a.flame_detected = b.flame_detected
    /\ a.heart_rate = b.heart_rate
    /\ a.heart_rate_avg = b.heart_rate_avg
    /\ a.spo2 = b.spo2

\* C14: the flame flag, heart rates and blood oxygen set before a discarded
\* trigger line persist: the discarded trigger line and the temperature or gas
\* line after it leave them as they were, and the reading the next trigger line
\* produces carries them.
C14_ValuesSurviveDiscardedTrigger ==
    [][/\ (pc = "read" /\ pc' = "read" /\ fed' # fed
              /\ taken' \in {"trigger", "temperature", "mq2"})
              => SameVitals(current_reading', current_reading)
       /\ (pc = "read" /\ pc' = "save")
              => /\ SameVitals(Last(History'), current_reading)
                 /\ \/ Last(History').flame_detected = Some(TRUE)
                    \/ Last(History').heart_rate = Some(Dec(80, 0))
                    \/ Last(History').heart_rate_avg = Some(Dec(72, 0))
                    \/ Last(History').spo2 = Some(Dec(98, 0))]_vars

\* a flame line and a heart-rate line, a discarded trigger line, a temperature
\* line and a trigger line: the reading produced carries flame and heart rate
C14_Witness ==
    /\ taken = "trigger"
    /\ pc = "save"
    /\ fed = 5
    /\ Len(History) = 1
    /\ History[1].temperature = Some(Dec(285, 1))
    /\ History[1].flame_detected = Some(TRUE)
    /\ History[1].heart_rate = Some(Dec(80, 0))

\* C15: at a finalize the heart rate of the snapshot is the instant heart rate
\* of the reading when it has one, else its average, else nothing; an average
\* line leaves the instant heart rate alone and an instant line the average.
C15_InstantHeartRatePreferred ==
    [][/\ (pc = "read" /\ pc' = "save")
              => /\ (current_reading'.heart_rate # None)
                        => (helmet_live_data'.heartRate = current_reading'.heart_rate)
                 /\ (current_reading'.heart_rate = None)
                        => (helmet_live_data'.heartRate = current_reading'.heart_rate_avg)
       /\ (fed' # fed /\ taken' = "avg_hr")
              => (current_reading'.heart_rate = current_reading.heart_rate)
       /\ (fed' # fed /\ taken' = "hr")
              => (current_reading'.heart_rate_avg = current_reading.heart_rate_avg)]_vars

\* a reading with instant 80 and average 72 was finalized: the snapshot shows 80
C15_Witness ==
    /\ pc = "save"
    /\ taken = "trigger"
    /\ Last(History).heart_rate = Some(Dec(80, 0))
    /\ Last(History).heart_rate_avg = Some(Dec(72, 0))
    /\ helmet_live_data.heartRate = Some(Dec(80, 0))

\* the fields of current_reading the branch b of the chain assigns
Assigned(b) ==
    CASE b = "temperature" -> {"temperature"}
      [] b = "mq2"         -> {"mq2_value"}
      [] b = "smoke"       -> {"flame_detected", "alert_status"}
      [] b = "flame"       -> {"flame_detected"}
      [] b = "avg_hr"      -> {"heart_rate_avg"}
      [] b = "hr"          -> {"heart_rate"}
      [] b = "spo2"        -> {"spo2"}
      [] b = "trigger"     -> {"alert_status"}
      [] OTHER             -> {}

\* C16: a line runs one branch of the chain, the first that matches: a step on
\* a line changes no field but those of the branch taken; the instant heart
\* rate never takes the value of the average line 'Avg HR (BPM): 72', which
\* holds the instant keyword too; and the line 'Temperature: 31 ALERT STATUS'
\* sets the temperature without finalizing or touching the alert status.
C16_FirstMatchingBranchOnly ==
    [][(fed' # fed)
          => /\ \A f \in DOMAIN EmptyReading :
                    (current_reading'[f] # current_reading[f]) => (f \in Assigned(taken'))
             /\ current_reading'.heart_rate # Some(Dec(72, 0))
             /\ (taken' = "avg_hr") => (current_reading'.heart_rate_avg = Some(Dec(72, 0)))
             /\ (taken' # "trigger") => (History' = History /\ pc' = "read")
             /\ (/\ current_reading.temperature # Some(Dec(31, 0))
                 /\ current_reading'.temperature = Some(Dec(31, 0)))
                    => /\ taken' = "temperature"
                       /\ History' = History
                       /\ current_reading'.alert_status = current_reading.alert_status]_vars

\* the average line arrived after an instant heart rate of 80 and after the
\* temperature line that holds the trigger keyword: 80 stands, nothing finalized
C16_Witness ==
    /\ taken = "avg_hr"
    /\ current_reading.heart_rate = Some(Dec(80, 0))
    /\ current_reading.heart_rate_avg = Some(Dec(72, 0))
    /\ current_reading.temperature = Some(Dec(31, 0))
    /\ current_reading.alert_status = None
    /\ History = <<>>

\* C17: every step leaves the history as it was, or adds one reading at the
\* back, or adds one at the back and drops the front one; the readings that
\* stay keep their content and their order.
C17_HistoryAppendOnly ==
    [][\/ History' = History
       \/ /\ Len(History') = Len(History) + 1
          /\ SubSeq(History', 1, Len(History)) = History
       \/ /\ Len(History) = HistoryCap
          /\ Len(History') = HistoryCap
          /\ SubSeq(History', 1, HistoryCap - 1) = Tail(History)]_vars

\* the 101st reading was finalized: it sits at the back, the first one is gone
\* and the other hundred moved up by one
C17_Witness ==
    /\ Len(finalized) = HistoryCap + 1
    /\ pc = "save"
    /\ Last(History) = finalized[HistoryCap + 1]
    /\ SubSeq(History, 1, HistoryCap - 1) = SubSeq(finalized, 2, HistoryCap)

\* C18: no reading of the history and no snapshot has the alert status
\* "Smoke Alert": the status of every reading held is "ALERT" or "Normal", and
\* so is the snapshot's, in cycles that an affirmative smoke line opened too.
C18_NoSmokeAlertPublished ==
    /\ \A i \in 1..Len(History) :
           History[i].alert_status \in {Some("ALERT"), Some("Normal")}
    /\ helmet_live_data.alert_status \in {Some("ALERT"), Some("Normal")}

\* a cycle that an affirmative smoke line opened was finalized: the reading has
\* the flame flag the smoke line cleared and the status of the trigger line
C18_Witness ==
    /\ pc = "save"
    /\ taken = "trigger"
    /\ Len(History) = 1
    /\ History[1].flame_detected = Some(FALSE)
    /\ History[1].alert_status = Some("ALERT")
    /\ helmet_live_data.alert_status = Some("ALERT")
    /\ helmet_live_data.flame_detected = Some(FALSE)

\* C19: a temperature or gas line always leaves its field present, zero when
\* the line holds no number, so the trigger line that follows finalizes; a
\* heart-rate line never sets zero: without a number its field is absent.
C19_NumberlessLineSetsZero ==
    [][(fed' # fed)
          => /\ (taken' = "temperature") => (current_reading'.temperature # None)
             /\ (taken' = "mq2") => (current_reading'.mq2_value # None)
             /\ (taken' = "trigger" /\ taken \in {"temperature", "mq2"})
                    => /\ pc' = "save"
                       /\ Len(finalized') = Len(finalized) + 1
                       /\ Last(History').temperature = current_reading.temperature
                       /\ Last(History').mq2_value = current_reading.mq2_value
             /\ (taken' = "hr")
                    => (current_reading'.heart_rate \in {None, Some(Dec(80, 0))})
             /\ (taken' = "avg_hr")
                    => (current_reading'.heart_rate_avg \in {None, Some(Dec(72, 0))})]_vars

\* the line 'Temperature:' and a trigger line, nothing else: one reading, with
\* temperature 0 and no gas level
C19_Witness ==
    /\ pc = "save"
    /\ fed = 2
    /\ taken = "trigger"
    /\ Len(History) = 1
    /\ History[1].temperature = Some(Dec(0, 0))
    /\ History[1].mq2_value = None
    /\ helmet_live_data.temperature = Some(Dec(0, 0))

============================================================================
